---- MODULE Spec2Model ----
(***************************************************************************)
(* Model of src/app.py: the Streamlit page of the Funda property scraper.  *)
(*                                                                         *)
(* State: st.session_state (urls_list, debug_mode, scraped_data), the      *)
(* feedback line the last script run printed and the HTTP GETs that run    *)
(* issued.  One action per button handler; the scrape button's handler is  *)
(* the whole loop of main() (lines 369-451).                               *)
(* Text is modelled by TLA+ strings, character by character.               *)
(***************************************************************************)
EXTENDS Integers, Sequences, FiniteSets, TLC

VARIABLES
    urls_list,      \* st.session_state.urls_list
    debug_mode,     \* st.session_state.debug_mode (absent reads as False)
    scraped_data,   \* st.session_state.scraped_data: None, or the DataFrame of the last run
    message,        \* what the last script run reported with st.success / st.error
    get_log         \* the HTTP GETs the last script run issued, in order

vars == <<urls_list, debug_mode, scraped_data, message, get_log>>

----------------------------------------------------------------------------
(* Bounds of the model *)

\* longest URL list the model lets the user build
MaxUrls == 2

----------------------------------------------------------------------------
(* Python values *)

\* Python's None, and a key a dict does not hold; Some(v) is a value that is set
None == <<>>
Some(v) == <<v>>

\* bool(x) of an optional string: None and "" are falsy
Truthy(x) == x # None /\ x[1] # ""

Char(s, i) == SubSeq(s, i, i)

Min(a, b) == IF a < b THEN a ELSE b
Max(a, b) == IF a > b THEN a ELSE b

\* s[a:b] of Python, a and b already clamped to 0..len(s)
Slice(s, a, b) == SubSeq(s, a + 1, b)

IsSpace(c) == c \in {" ", "\n", "\t"}
IsDigit(c) == c \in {"0", "1", "2", "3", "4", "5", "6", "7", "8", "9"}

\* sub in s
Contains(s, sub) ==
    \E p \in 1..(Len(s) - Len(sub) + 1) : SubSeq(s, p, p + Len(sub) - 1) = sub

\* s.startswith(pre)
StartsWith(s, pre) == Len(pre) <= Len(s) /\ SubSeq(s, 1, Len(pre)) = pre

\* s.find(sub): the 0-based index of the first occurrence, -1 if there is none
Find(s, sub) ==
    LET hits == {p \in 1..(Len(s) - Len(sub) + 1) : SubSeq(s, p, p + Len(sub) - 1) = sub}
    IN  IF hits = {} THEN -1
        ELSE (CHOOSE p \in hits : \A q \in hits : p <= q) - 1

\* s.strip()
Strip(s) ==
    LET keep == {p \in 1..Len(s) : ~IsSpace(Char(s, p))}
    IN  IF keep = {} THEN ""
        ELSE SubSeq(s, CHOOSE p \in keep : \A q \in keep : p <= q,
                       CHOOSE p \in keep : \A q \in keep : p >= q)


UpperAZ == "ABCDEFGHIJKLMNOPQRSTUVWXYZ"
LowerAZ == "abcdefghijklmnopqrstuvwxyz"

Letters(az) == {Char(az, i) : i \in 1..Len(az)}

\* c.lower() and c.upper() of one character
ToLower(c) ==
    IF c \in Letters(UpperAZ)
    THEN Char(LowerAZ, CHOOSE i \in 1..Len(UpperAZ) : Char(UpperAZ, i) = c)
    ELSE c
ToUpper(c) ==
    IF c \in Letters(LowerAZ)
    THEN Char(UpperAZ, CHOOSE i \in 1..Len(LowerAZ) : Char(LowerAZ, i) = c)
    ELSE c

\* Strings are converted half by half, so that evaluation nests only
\* logarithmically deep in the length of the text.
Left(s) == SubSeq(s, 1, Len(s) \div 2)
Right(s) == SubSeq(s, Len(s) \div 2 + 1, Len(s))

RECURSIVE LowerCase(_)
\* s.lower()
LowerCase(s) == IF Len(s) <= 1 THEN ToLower(s) ELSE LowerCase(Left(s)) \o LowerCase(Right(s))

RECURSIVE UpperCase(_)
\* s.upper()
UpperCase(s) == IF Len(s) <= 1 THEN ToUpper(s) ELSE UpperCase(Left(s)) \o UpperCase(Right(s))

\* s.replace(old, new) for a one-character old
RECURSIVE Replace(_, _, _)
Replace(s, old, new) ==
    IF Len(s) <= 1 THEN (IF s = old THEN new ELSE s)
    ELSE Replace(Left(s), old, new) \o Replace(Right(s), old, new)

\* any(char.isdigit() for char in s)
HasDigit(s) == \E p \in 1..Len(s) : IsDigit(Char(s, p))

----------------------------------------------------------------------------
(* Python's re: a backtracking matcher.  A pattern is a tree of character  *)
(* classes, concatenations and greedy repetitions, with one capturing      *)
(* group.  Offsets count the characters consumed (0-based).                *)

Unbounded == -1

Cls(S) == [t |-> "cls", set |-> S, neg |-> FALSE]
NotCls(S) == [t |-> "cls", set |-> S, neg |-> TRUE]
Cat(items) == [t |-> "cat", items |-> items]
Rep(r, lo, hi) == [t |-> "rep", r |-> r, lo |-> lo, hi |-> hi, n |-> 0]
Star(r) == Rep(r, 0, Unbounded)
Plus(r) == Rep(r, 1, Unbounded)
Opt(r) == Rep(r, 0, 1)
Empty == Cat(<<>>)
GroupStart == [t |-> "gs"]
GroupEnd == [t |-> "ge"]

\* a literal, and a literal under re.IGNORECASE
Lit(s) == Cat([i \in 1..Len(s) |-> Cls({Char(s, i)})])
LitIgnoreCase(s) == Cat([i \in 1..Len(s) |-> Cls({ToLower(Char(s, i)), ToUpper(Char(s, i))})])

ReSpace == Cls({" ", "\n", "\t"})
ReDigit == Cls({"0", "1", "2", "3", "4", "5", "6", "7", "8", "9"})

\* A pattern with one capturing group is the triple before / group / after.
Pattern(src, pre, grp, post) == [src |-> src, pre |-> pre, grp |-> grp, post |-> post]

NoMatch == [ok |-> FALSE, start |-> 0, gs |-> 0, ge |-> 0, end |-> 0]

\* does the character at offset pos (0-based) belong to the class r
ClsAt(r, text, pos) == (Char(text, pos + 1) \in r.set) # r.neg

\* how many characters from offset pos on belong to the class r, at most hi of them
RunLength(r, text, pos, hi) ==
    LET limit == IF hi = Unbounded THEN Len(text) - pos ELSE Min(hi, Len(text) - pos)
        stops == {k \in 0..(limit - 1) : ~ClsAt(r, text, pos + k)}
    IN  IF stops = {} THEN limit ELSE CHOOSE k \in stops : \A j \in stops : k <= j

RECURSIVE Backtrack(_, _, _, _)
\* The engine's search: todo is what is left to match (a stack of pattern nodes),
\* pos the offset reached, m the match so far.  A greedy repetition first tries
\* one more round and, only if the rest cannot be matched after it, stops there.
\* No repetition of these patterns has a body that matches the empty string.
\* A repetition of a character class takes the longest run of the class after
\* which the rest still matches, which is where giving back one character at a
\* time ends up.
Longest(ns, rest, text, pos, m) ==
    IF ns = {} THEN NoMatch
    ELSE Backtrack(rest, text, pos + (CHOOSE n \in ns : \A k \in ns : n >= k), m)
GreedyCls(rest, text, pos, m, lo, run) ==
    Longest({n \in lo..run : Backtrack(rest, text, pos + n, m).ok}, rest, text, pos, m)
Backtrack(todo, text, pos, m) ==
    IF todo = <<>> THEN [m EXCEPT !.ok = TRUE, !.end = pos]
    ELSE LET r == Head(todo)
             rest == Tail(todo)
         IN  CASE r.t = "cls" ->
                    IF pos < Len(text) /\ ClsAt(r, text, pos)
                    THEN Backtrack(rest, text, pos + 1, m)
                    ELSE NoMatch
               [] r.t = "cat" -> Backtrack(r.items \o rest, text, pos, m)
               [] r.t = "gs" -> Backtrack(rest, text, pos, [m EXCEPT !.gs = pos])
               [] r.t = "ge" -> Backtrack(rest, text, pos, [m EXCEPT !.ge = pos])
               [] r.t = "rep" /\ r.r.t = "cls" ->
                    GreedyCls(rest, text, pos, m, r.lo, RunLength(r.r, text, pos, r.hi))
               [] r.t = "rep" /\ r.r.t # "cls" ->
                    LET more == IF r.hi = Unbounded \/ r.n < r.hi
                                THEN Backtrack(<<r.r, [r EXCEPT !.n = @ + 1]>> \o rest,
                                               text, pos, m)
                                ELSE NoMatch
                    IN  IF more.ok THEN more
                        ELSE IF r.n >= r.lo THEN Backtrack(rest, text, pos, m)
                             ELSE NoMatch

\* the match of pat that starts at offset start, if there is one
MatchAt(pat, text, start) ==
    Backtrack(<<pat.pre, GroupStart, pat.grp, GroupEnd, pat.post>>, text, start,
              [NoMatch EXCEPT !.start = start])

\* re.search(pat, text) from offset from on: the leftmost match
Leftmost(starts, pat, text) ==
    IF starts = {} THEN NoMatch
    ELSE MatchAt(pat, text, CHOOSE s \in starts : \A k \in starts : s <= k)
Search(pat, text, from) ==
    Leftmost({s \in from..Len(text) : MatchAt(pat, text, s).ok}, pat, text)

\* m.group(1) of a match, None where nothing matched
GroupOf(m, text) == IF m.ok THEN Some(SubSeq(text, m.gs + 1, m.ge)) ELSE None

RECURSIVE FindAllFrom(_, _, _)
\* re.findall(pat, text): group 1 of every non-overlapping match, left to right
FindAllAfter(m, pat, text) ==
    IF ~m.ok THEN <<>>
    ELSE GroupOf(m, text)
         \o FindAllFrom(pat, text, IF m.end > m.start THEN m.end ELSE m.start + 1)
FindAllFrom(pat, text, from) ==
    IF from > Len(text) THEN <<>> ELSE FindAllAfter(Search(pat, text, from), pat, text)
FindAll(pat, text) == FindAllFrom(pat, text, 0)

----------------------------------------------------------------------------
(* A fetched page, as BeautifulSoup shows it to extract_property_data:     *)
(*   sel     the text of soup.select_one(selector) for each address        *)
(*           selector, None where no element matches                        *)
(*   title   the text of the <title> element, None without one             *)
(*   text    soup.get_text()                                               *)
(*   ldjson  the <script type="application/ld+json"> blocks, in page order *)
(*   dts     the <dt> elements in page order, each with the text of its    *)
(*           next <dd> sibling (None without one)                           *)

\* lines 106-113
address_selectors ==
    << "h1", "[data-test-id=\"street-name-house-number\"]", ".object-header__title",
       ".fd-color-dark-1", "h1[class*=\"object\"]", ".object-address" >>

RECURSIVE FirstAddressElement(_, _)
\* lines 115-125: the first selector whose element has a plausible address text
FirstAddressElement(page, k) ==
    IF k > Len(address_selectors) THEN None
    ELSE LET element == page.sel[address_selectors[k]]
             address_text == Strip(element[1])
         IN  IF /\ element # None
                /\ address_text # ""
                /\ Len(address_text) > 10
                /\ HasDigit(address_text)
             THEN Some(address_text)
             ELSE FirstAddressElement(page, k + 1)

AddressFromSelectors(page) == FirstAddressElement(page, 1)

\* r'^([^-]+)' (line 134)
TitlePattern == Pattern("^([^-]+)", Empty, Plus(NotCls({"-"})), Empty)

\* lines 135-138: the matched prefix, stripped, if longer than 10 characters
PotentialAddress(address_match) ==
    IF address_match # None /\ Len(Strip(address_match[1])) > 10
    THEN Some(Strip(address_match[1]))
    ELSE None

\* lines 128-140: the part of the title before the first hyphen
AddressFromTitle(page) ==
    IF page.title = None THEN None
    ELSE PotentialAddress(GroupOf(MatchAt(TitlePattern, page.title[1], 0), page.title[1]))

ReAlpha == Cls(Letters(UpperAZ) \cup Letters(LowerAZ))
ReAlphaSpace == Cls(Letters(UpperAZ) \cup Letters(LowerAZ) \cup {" ", "\n", "\t"})
ReCommaSpace == Cls({",", " ", "\n", "\t"})

\* lines 148-151
address_patterns ==
    << Pattern("([A-Za-z\\s]+\\s+\\d+[A-Za-z]?[,\\s]+\\d{4}\\s*[A-Z]{2}[,\\s]+[A-Za-z\\s]+)",
               Empty,
               Cat(<< Plus(ReAlphaSpace), Plus(ReSpace), Plus(ReDigit), Opt(ReAlpha),
                      Plus(ReCommaSpace), Rep(ReDigit, 4, 4), Star(ReSpace),
                      Rep(Cls(Letters(UpperAZ)), 2, 2), Plus(ReCommaSpace),
                      Plus(ReAlphaSpace) >>),
               Empty),
       Pattern("([A-Za-z\\s]+\\s+\\d+[A-Za-z]?[,\\s\\n]+[A-Za-z\\s]+)",
               Empty,
               Cat(<< Plus(ReAlphaSpace), Plus(ReSpace), Plus(ReDigit), Opt(ReAlpha),
                      Plus(ReCommaSpace), Plus(ReAlphaSpace) >>),
               Empty) >>

RECURSIVE FirstSizedMatch(_, _)
\* lines 155-158: the first match of reasonable length
FirstSizedMatch(matches, j) ==
    IF j > Len(matches) THEN None
    ELSE IF Len(matches[j]) > 15 /\ Len(matches[j]) < 100
         THEN Some(Strip(matches[j]))
         ELSE FirstSizedMatch(matches, j + 1)

RECURSIVE AddressFromPatterns(_, _)
\* lines 159-160: a pattern that gave an address ends the loop over the patterns
AddressOrNextPattern(found, page_text, k) ==
    IF Truthy(found) THEN found ELSE AddressFromPatterns(page_text, k + 1)
\* lines 153-160
AddressFromPatterns(page_text, k) ==
    IF k > Len(address_patterns) THEN None
    ELSE AddressOrNextPattern(FirstSizedMatch(FindAll(address_patterns[k], page_text), 1),
                              page_text, k)

\* line 128: method 2 runs if method 1 left the address unset
AddressOrTitle(address, page) ==
    IF ~Truthy(address) THEN AddressFromTitle(page) ELSE address
\* line 143: method 3 runs if methods 1 and 2 left the address unset
AddressOrPatterns(address, page) ==
    IF ~Truthy(address) THEN AddressFromPatterns(page.text, 1) ELSE address

\* lines 104-162: the address cascade
ExtractAddress(page) ==
    AddressOrPatterns(AddressOrTitle(AddressFromSelectors(page), page), page)

----------------------------------------------------------------------------
(* Asking price, lines 164-215 *)

\* €\s*(\d{2,3}(?:\.\d{3})+)\s*<qualifier>, matched under re.IGNORECASE
PricePattern(src, qualifier) ==
    Pattern(src,
            Cat(<< Lit("€"), Star(ReSpace) >>),
            Cat(<< Rep(ReDigit, 2, 3), Plus(Cat(<< Lit("."), Rep(ReDigit, 3, 3) >>)) >>),
            Cat(<< Star(ReSpace), LitIgnoreCase(qualifier) >>))

\* lines 170-176; src is the pattern as the source spells it
price_patterns ==
    << PricePattern("€\\s*(\\d{2,3}(?:\\.\\d{3})+)\\s*k\\.k\\.", "k.k."),
       PricePattern("€\\s*(\\d{2,3}(?:\\.\\d{3})+)\\s*kk", "kk"),
       PricePattern("€\\s*(\\d{2,3}(?:\\.\\d{3})+)\\s*kosten koper", "kosten koper"),
       PricePattern("€\\s*(\\d{2,3}(?:\\.\\d{3})+)\\s*vk", "vk"),
       PricePattern("€\\s*(\\d{2,3}(?:\\.\\d{3})+)", "") >>

\* characters of context taken before and after the match (lines 182, 183)
ContextBefore == 50
ContextAfter == 100

\* lines 182-184: the text around the first "€ <amount>" of the page, lowercased
PriceContext(all_text, amount) ==
    LET at == Find(all_text, "€ " \o amount)
        context_start == Max(0, at - ContextBefore)
        context_end == Min(Len(all_text), at + ContextAfter)
    IN  LowerCase(Slice(all_text, context_start, context_end))

\* lines 186-192: the qualifier is chosen by what the pattern's source contains
FormatPrice(pattern_src, amount) ==
    IF \/ Contains(pattern_src, "k.k.")
       \/ Contains(pattern_src, "kk")
       \/ Contains(pattern_src, "kosten koper")
    THEN "€ " \o amount \o " k.k."
    ELSE IF Contains(pattern_src, "vk")
         THEN "€ " \o amount \o " vk"
         ELSE "€ " \o amount

\* line 186
NotMonthly(context) == ~Contains(context, "per maand") /\ ~Contains(context, "maandlasten")

RECURSIVE PriceFromPatterns(_, _)
\* lines 180-194: what pattern k's matches give; a rejected first match passes on
\* to the next pattern
PriceFromMatches(matches, all_text, k) ==
    IF matches # <<>> /\ NotMonthly(PriceContext(all_text, matches[1]))
    THEN Some(FormatPrice(price_patterns[k].src, matches[1]))
    ELSE PriceFromPatterns(all_text, k + 1)
\* lines 178-194: the first pattern with a match whose context is not a monthly amount
PriceFromPatterns(all_text, k) ==
    IF k > Len(price_patterns) THEN None
    ELSE PriceFromMatches(FindAll(price_patterns[k], all_text), all_text, k)

\* the digits of n >= 0 in groups of three, as f"{n:,.0f}".replace(',', '.') writes them
RECURSIVE Thousands(_)
Thousands(n) ==
    IF n < 1000 THEN ToString(n)
    ELSE LET low == n % 1000
         IN  Thousands(n \div 1000) \o "."
             \o (IF low < 10 THEN "00" ELSE IF low < 100 THEN "0" ELSE "") \o ToString(low)

RECURSIVE PriceFromLdJson(_, _)
\* lines 201-213.  A script is [kind, price]: kind "invalid" (json.loads raises),
\* "other" (no dict with 'offers'), "offers_text" (the price is a text, which
\* the number format refuses), "offers" (offers is a dict; price is what
\* offers.get('price') gives: None or Some(number)).
PriceFromLdJson(scripts, k) ==
    IF k > Len(scripts) THEN None
    ELSE LET script == scripts[k]
         IN  IF /\ script.kind = "offers"
                /\ script.price # None
                /\ script.price[1] # 0
             THEN Some("€ " \o Thousands(script.price[1]))
             ELSE PriceFromLdJson(scripts, k + 1)

\* line 199: method 2 runs if method 1 did not set price_found
PriceOrLdJson(asking_price, page) ==
    IF asking_price = None THEN PriceFromLdJson(page.ldjson, 1) ELSE asking_price

\* lines 164-215: the price cascade
ExtractPrice(page) == PriceOrLdJson(PriceFromPatterns(page.text, 1), page)

----------------------------------------------------------------------------
(* Area and energy label, lines 217-265 *)

ReDecimal == Cat(<< Plus(ReDigit), Opt(Cat(<< Cls({",", "."}), Plus(ReDigit) >>)) >>)

\* r'(\d+(?:[,\.]\d+)?)\s*m[²2]?' (line 227)
AreaValuePattern ==
    Pattern("(\\d+(?:[,\\.]\\d+)?)\\s*m[²2]?", Empty, ReDecimal,
            Cat(<< Star(ReSpace), Lit("m"), Opt(Cls({"²", "2"})) >>))

\* r'(\d+(?:[,\.]\d+)?)\s*m[²2]' (line 247)
AreaTextPattern ==
    Pattern("(\\d+(?:[,\\.]\\d+)?)\\s*m[²2]", Empty, ReDecimal,
            Cat(<< Star(ReSpace), Lit("m"), Cls({"²", "2"}) >>))

ReLabel == Cls({"A", "B", "C", "D", "E", "F", "G"})

\* r'([A-G])' (line 236)
EnergyValuePattern == Pattern("([A-G])", Empty, ReLabel, Empty)

\* r'[Ee]nergielabel[:\s]*([A-G])' (line 261), matched without re.IGNORECASE
EnergyTextPattern ==
    Pattern("[Ee]nergielabel[:\\s]*([A-G])",
            Cat(<< Cls({"E", "e"}), Lit("nergielabel"), Star(Cls({":", " ", "\n", "\t"})) >>),
            ReLabel, Empty)

\* line 223
area_keywords == <<"woonoppervlakte", "oppervlakte", "gebruiksoppervlakte">>

\* lines 224-227 and 233-236: group 1 of re.search over the text of the <dd>
\* that follows the <dt>, None without a <dd> or without a match
SearchDd(pat, dd) ==
    IF dd = None THEN None ELSE GroupOf(Search(pat, Strip(dd[1]), 0), Strip(dd[1]))

RECURSIVE ScanDtElements(_, _, _)
\* lines 228-230: an area ends the loop (break); without one the loop goes on
ScanAfterArea(area_match, dt_elements, k, data) ==
    IF area_match # None
    THEN [data EXCEPT !.area_m2 = Some(Replace(area_match[1], ",", "."))]
    ELSE ScanDtElements(dt_elements, k + 1, data)
\* lines 237-238: a label is stored and the loop goes on
ScanAfterEnergy(energy_match, dt_elements, k, data) ==
    IF energy_match # None
    THEN ScanDtElements(dt_elements, k + 1, [data EXCEPT !.energy_label = energy_match])
    ELSE ScanDtElements(dt_elements, k + 1, data)
\* lines 222-238: one <dt>, by its lowercased text
ScanDt(dt_text, dt_elements, k, data) ==
    IF \E j \in 1..Len(area_keywords) : Contains(dt_text, area_keywords[j])
    THEN ScanAfterArea(SearchDd(AreaValuePattern, dt_elements[k].dd), dt_elements, k, data)
    ELSE IF Contains(dt_text, "energielabel") \/ Contains(dt_text, "energie")
         THEN ScanAfterEnergy(SearchDd(EnergyValuePattern, dt_elements[k].dd),
                              dt_elements, k, data)
         ELSE ScanDtElements(dt_elements, k + 1, data)
\* lines 220-240: one pass over the <dt> elements, data = [area_m2, energy_label]
ScanDtElements(dt_elements, k, data) ==
    IF k > Len(dt_elements) THEN data
    ELSE ScanDt(LowerCase(Strip(dt_elements[k].dt)), dt_elements, k, data)

\* the integer a run of decimal digits denotes
RECURSIVE DigitsValue(_)
DigitsValue(d) ==
    IF d = "" THEN 0
    ELSE 10 * DigitsValue(SubSeq(d, 1, Len(d) - 1))
         + (CHOOSE v \in 0..9 : ToString(v) = Char(d, Len(d)))

MinArea == 10
MaxArea == 1000

\* line 250: 10 <= float(match.replace(',', '.')) <= 1000
PlausibleArea(match) ==
    LET number == Replace(match, ",", ".")
        dot == Find(number, ".")
        whole == DigitsValue(IF dot = -1 THEN number ELSE Slice(number, 0, dot))
        fraction == IF dot = -1 THEN 0 ELSE DigitsValue(Slice(number, dot + 1, Len(number)))
    IN  /\ whole >= MinArea
        /\ \/ whole < MaxArea
           \/ whole = MaxArea /\ fraction = 0

RECURSIVE FirstPlausibleArea(_, _)
\* lines 248-252
FirstPlausibleArea(area_matches, j) ==
    IF j > Len(area_matches) THEN None
    ELSE IF PlausibleArea(area_matches[j])
         THEN Some(Replace(area_matches[j], ",", "."))
         ELSE FirstPlausibleArea(area_matches, j + 1)

\* lines 243-254
AreaFromText(all_text) == FirstPlausibleArea(FindAll(AreaTextPattern, all_text), 1)

\* lines 262-263
FirstEnergyMatch(energy_matches) ==
    IF energy_matches # <<>> THEN Some(UpperCase(energy_matches[1])) ELSE None

\* lines 257-265
EnergyFromText(all_text) == FirstEnergyMatch(FindAll(EnergyTextPattern, all_text))

\* lines 243 and 257: the text is searched for what the <dt> scan left unset
WithTextFallbacks(data, page) ==
    [area_m2 |-> IF ~Truthy(data.area_m2) THEN AreaFromText(page.text) ELSE data.area_m2,
     energy_label |-> IF ~Truthy(data.energy_label)
                      THEN EnergyFromText(page.text) ELSE data.energy_label]

\* lines 217-265: area and energy label
ExtractAreaAndEnergy(page) ==
    WithTextFallbacks(ScanDtElements(page.dts, 1, [area_m2 |-> None, energy_label |-> None]),
                      page)

----------------------------------------------------------------------------
(* The web: what a GET of each URL meets.  A response carries the status   *)
(* code and the parsed page; a timeout makes session.get raise.            *)

NoPage ==
    [sel |-> [x \in {address_selectors[k] : k \in 1..Len(address_selectors)} |-> None],
     title |-> None, text |-> "", ldjson |-> <<>>, dts |-> <<>>]

\* a listing without key-value markup: everything has to come from the text
PageFull ==
    [NoPage EXCEPT
        !.sel = [@ EXCEPT !["h1"] = Some("Te koop")],
        !.title = Some("Dam 12, 1012 JS Amsterdam - Funda"),
        !.text = "Dam 12, 1012 JS Amsterdam - Funda\nTe koop\n€ 395.000 k.k.\n"
                 \o "Perceel 5000 m², wonen 71 m²\nENERGIELABEL c\n"]

\* a listing with <dt>/<dd> pairs and a JSON-LD block
PageKv ==
    [NoPage EXCEPT
        !.sel = [@ EXCEPT !["h1"] = Some(" Kerkstraat 12A, 3581 RA Utrecht ")],
        !.title = Some("Kerkstraat 12A - Funda"),
        !.text = "Kerkstraat 12A - Funda\nKerkstraat 12A, 3581 RA Utrecht\n"
                 \o "Vraagprijs € 450.000 kosten koper\nWoonoppervlakte 82,5 m²\nEnergielabel B\n",
        !.ldjson = << [kind |-> "invalid", price |-> None],
                      [kind |-> "offers", price |-> Some(450000)] >>,
        !.dts = << [dt |-> "Woonoppervlakte", dd |-> Some("82,5 m²")],
                   [dt |-> "Energielabel", dd |-> Some("B")] >>]

\* a page on which no strategy finds anything
PageBare == [NoPage EXCEPT !.title = Some("Funda"), !.text = "Funda\nGeen gegevens\n"]

UrlFull == "https://funda.nl/full"
UrlKv == "https://funda.nl/kv"
UrlBare == "https://funda.nl/bare"
UrlGone == "https://funda.nl/gone"
UrlDown == "https://funda.nl/down"

\* the listing URLs of the modelled web: three pages, a 404 and a host that times out
ListingUrls == {UrlFull, UrlKv, UrlBare, UrlGone, UrlDown}

Web(url) ==
    CASE url = UrlFull -> [kind |-> "response", status_code |-> 200, page |-> PageFull]
      [] url = UrlKv   -> [kind |-> "response", status_code |-> 200, page |-> PageKv]
      [] url = UrlBare -> [kind |-> "response", status_code |-> 200, page |-> PageBare]
      [] url = UrlGone -> [kind |-> "response", status_code |-> 404, page |-> PageBare]
      [] OTHER         -> [kind |-> "timeout", status_code |-> 0, page |-> NoPage]

\* the GET of a URL gives a page: it returns, and with a 2xx status
FetchSucceeds(url) ==
    Web(url).kind = "response" /\ Web(url).status_code \in 200..299

----------------------------------------------------------------------------
(* OnlineFundaScraper.extract_property_data, lines 66-277 *)

\* lines 95-102 and 270-277: the keys of the returned dict
Record(address, link, asking_price, area_m2, energy_label, status) ==
    [address |-> address, link |-> link, asking_price |-> asking_price,
     area_m2 |-> area_m2, energy_label |-> energy_label, status |-> status,
     commute_url_1 |-> None, commute_url_2 |-> None]

\* an except branch that returns its dict without the link
ErrorRecordWithoutLink(url, e) == Record(None, "", None, None, None, "Error: " \o e)

\* lines 269-277: the except branch
ErrorRecord(url, e) == Record(None, url, None, None, None, "Error: " \o e)

\* str(e) of the exceptions the try block can raise
UnboundLocalMessage == "cannot access local variable 'data' where it is not associated with a value"
TimeoutMessage(url) == "HTTPSConnectionPool: Read timed out. (read timeout=10)"
HTTPErrorMessage(code, url) == ToString(code) \o " Client Error for url: " \o url

\* lines 69-88 read data['address'], ... at the top of the try block; the local
\* `data` is bound only at line 95, so the read at line 70 raises UnboundLocalError
PreambleRaises == TRUE

\* lines 95-102 and 267: the dict the try block returns
SuccessRecord(url, address, asking_price, area_energy) ==
    Record(address, url, asking_price, area_energy.area_m2, area_energy.energy_label,
           "Success")

\* lines 93-267: the extraction over a fetched page
ExtractFields(page, url) ==
    SuccessRecord(url, ExtractAddress(page), ExtractPrice(page), ExtractAreaAndEnergy(page))

\* a fetch that leaves out raise_for_status: no status raises
StatusNeverRaises(code) == FALSE

\* raise_for_status (line 91) raises for 4xx and 5xx
RaisesForStatus(code) == code \in 400..599

\* The call returns [raised, data, gets]: whether an exception leaves the call,
\* the dict it returns, and the URLs it requested with session.get.
Returned(data, gets) == [raised |-> FALSE, data |-> data, gets |-> gets]

\* lines 90-277: the try block from session.get on, with its except branch
FetchAndExtract(url, response) ==
    IF response.kind = "timeout"
    THEN Returned(ErrorRecord(url, TimeoutMessage(url)), <<url>>)
    ELSE IF RaisesForStatus(response.status_code)
         THEN Returned(ErrorRecord(url, HTTPErrorMessage(response.status_code, url)), <<url>>)
         ELSE Returned(ExtractFields(response.page, url), <<url>>)

\* lines 66-277: the exception of the preamble is caught at line 269 like any other
extract_property_data(url) ==
    IF PreambleRaises
    THEN Returned(ErrorRecord(url, UnboundLocalMessage), <<>>)
    ELSE FetchAndExtract(url, Web(url))

\* urllib.parse.quote of one character: letters, digits and _.-~/ stay
QuoteChar(c) ==
    CASE c = " " -> "%20" [] c = "\n" -> "%0A" [] c = "\t" -> "%09"
      [] c = "," -> "%2C" [] c = ":" -> "%3A" [] c = "€" -> "%E2%82%AC"
      [] c = "²" -> "%C2%B2" [] c = "'" -> "%27" [] c = "(" -> "%28" [] c = ")" -> "%29"
      [] OTHER -> c

RECURSIVE Quote(_)
Quote(s) == IF Len(s) <= 1 THEN QuoteChar(s) ELSE Quote(Left(s)) \o Quote(Right(s))

\* lines 279-283
get_commute_time_url(home_address, work_address) ==
    LET home_clean == Strip(Replace(home_address, "\n", " "))
        work_clean == Strip(Replace(work_address, "\n", " "))
    IN  "https://www.google.com/maps/dir/" \o Quote(home_clean) \o "/" \o Quote(work_clean)
        \o "/data=!3m1!4b1!4m2!4m1!3e3"

----------------------------------------------------------------------------
(* main(), lines 295-538: the button handlers *)

\* what the user types into "Add Funda URL:" (line 316): listings, one of them
\* also with blanks around it, blank input and a URL of another site
UrlInputs ==
    {UrlFull, UrlKv, UrlGone, " https://funda.nl/full ", "", "  ", "https://example.com/x"}

\* what the user types into the work address fields (lines 352-357)
WorkAddress1Inputs == {"", "  ", "Amsterdam Centraal Station, Amsterdam"}
WorkAddress2Inputs == {"", "Rotterdam Centraal, Rotterdam"}

MsgUrlAdded == "URL added!"
MsgInvalidUrl == "Please enter a valid Funda URL"
MsgCleared == "URLs cleared!"
MsgNoUrls == "Please add at least one Funda URL"
MsgNoWorkAddress == "Please enter at least one work address"
MsgCompleted == "Scraping completed successfully!"
MsgDebugOn == "Debug mode ON"
MsgDebugOff == "Debug mode OFF"
MsgException == "Traceback"

\* lines 324-329
AddUrl(url_input) ==
    /\ IF Strip(url_input) # "" /\ Contains(url_input, "funda.nl")
       THEN /\ Len(urls_list) < MaxUrls
            /\ urls_list' = Append(urls_list, Strip(url_input))
            /\ message' = MsgUrlAdded
       ELSE /\ urls_list' = urls_list
            /\ message' = IF Strip(url_input) # "" THEN MsgInvalidUrl ELSE ""
    /\ get_log' = <<>>
    /\ UNCHANGED <<debug_mode, scraped_data>>

\* lines 332-334
ClearAll ==
    /\ urls_list' = <<>>
    /\ message' = MsgCleared
    /\ get_log' = <<>>
    /\ UNCHANGED <<debug_mode, scraped_data>>

\* lines 339-346: the button of row i (0-based) pops that entry and reruns the script
RemoveUrl(i) ==
    /\ i \in 0..(Len(urls_list) - 1)
    /\ urls_list' = SubSeq(urls_list, 1, i) \o SubSeq(urls_list, i + 2, Len(urls_list))
    /\ message' = ""
    /\ get_log' = <<>>
    /\ UNCHANGED <<debug_mode, scraped_data>>

\* lines 461-466
ToggleDebug ==
    /\ debug_mode' = ~debug_mode
    /\ message' = IF debug_mode' THEN MsgDebugOn ELSE MsgDebugOff
    /\ get_log' = <<>>
    /\ UNCHANGED <<urls_list, scraped_data>>

\* one GET, as get_log records it: the loop index, the URL and the place of the call
Get(i, url, by) == [iter |-> i, url |-> url, by |-> by]

\* lines 393-416: the debug expander fetches the page again; what goes wrong in it
\* is caught at line 415
DebugGets(i, url) == IF debug_mode THEN <<Get(i, url, "debug")>> ELSE <<>>

\* commute links added for every work address, whether or not there is an address
AddCommuteUrlsWithoutAddress(property_data, w1, w2) ==
    [property_data EXCEPT
        !.commute_url_1 =
            IF w1 # ""
            THEN Some(get_commute_time_url(
                        IF Truthy(property_data.address) THEN property_data.address[1] ELSE "None",
                        w1))
            ELSE @,
        !.commute_url_2 =
            IF w2 # ""
            THEN Some(get_commute_time_url(
                        IF Truthy(property_data.address) THEN property_data.address[1] ELSE "None",
                        w2))
            ELSE @]

\* lines 418-427
AddCommuteUrls(property_data, w1, w2) ==
    [property_data EXCEPT
        !.commute_url_1 =
            IF Truthy(property_data.address) /\ w1 # ""
            THEN Some(get_commute_time_url(property_data.address[1], w1)) ELSE @,
        !.commute_url_2 =
            IF Truthy(property_data.address) /\ w2 # ""
            THEN Some(get_commute_time_url(property_data.address[1], w2)) ELSE @]

\* a loop that leaves the records of failed URLs out of the batch
AppendUnlessError(properties_data, property_data) ==
    IF StartsWith(property_data.status, "Error:")
    THEN properties_data
    ELSE Append(properties_data, property_data)

\* line 429
AppendProperty(properties_data, property_data) == Append(properties_data, property_data)

RECURSIVE ScrapeLoop(_, _, _, _)
\* lines 390-429: one iteration, given what extract_property_data did; an
\* exception that leaves the call would end the script run
ScrapeIteration(call, i, w1, w2, run) ==
    IF call.raised
    THEN [run EXCEPT !.raised = TRUE,
                     !.gets = @ \o [k \in 1..Len(call.gets) |-> Get(i, call.gets[k], "extract")]]
    ELSE ScrapeLoop(i + 1, w1, w2,
            [raised |-> FALSE,
             properties_data |->
                AppendProperty(run.properties_data, AddCommuteUrls(call.data, w1, w2)),
             gets |-> run.gets
                      \o [k \in 1..Len(call.gets) |-> Get(i, call.gets[k], "extract")]
                      \o DebugGets(i, urls_list[i + 1])])
\* lines 384-430: the loop from index i (0-based) on; run = [raised, properties_data, gets]
ScrapeLoop(i, w1, w2, run) ==
    IF i >= Len(urls_list) THEN run
    ELSE ScrapeIteration(extract_property_data(urls_list[i + 1]), i, w1, w2, run)

\* lines 436-441
base_columns == <<"address", "link", "asking_price", "area_m2", "energy_label", "status">>
commute_columns(w1, w2) ==
    (IF w1 # "" THEN <<"commute_url_1">> ELSE <<>>)
    \o (IF w2 # "" THEN <<"commute_url_2">> ELSE <<>>)

HasColumn(columns, name) == \E k \in 1..Len(columns) : columns[k] = name

\* lines 433-443: pd.DataFrame(properties_data).reindex(columns=...)
DataFrame(properties_data, columns) ==
    [columns |-> columns,
     rows |-> [k \in 1..Len(properties_data) |->
                 [properties_data[k] EXCEPT
                    !.commute_url_1 = IF HasColumn(columns, "commute_url_1") THEN @ ELSE None,
                    !.commute_url_2 = IF HasColumn(columns, "commute_url_2") THEN @ ELSE None]]]

\* lines 433-451: the results of a finished loop go to the session state; an
\* uncaught exception ends the script run before that
StoreRun(run, work_address_1, work_address_2) ==
    /\ get_log' = run.gets
    /\ IF run.raised
       THEN message' = MsgException /\ scraped_data' = scraped_data
       ELSE /\ message' = MsgCompleted
            /\ scraped_data' =
                  Some(DataFrame(run.properties_data,
                                 base_columns \o commute_columns(work_address_1, work_address_2)))
    /\ UNCHANGED <<urls_list, debug_mode>>

\* lines 369-451: the "Scrape Properties" button
Scrape(work_address_1, work_address_2) ==
    IF urls_list = <<>>
    THEN /\ message' = MsgNoUrls
         /\ get_log' = <<>>
         /\ UNCHANGED <<urls_list, debug_mode, scraped_data>>
    ELSE IF Strip(work_address_1) = ""
         THEN /\ message' = MsgNoWorkAddress
              /\ get_log' = <<>>
              /\ UNCHANGED <<urls_list, debug_mode, scraped_data>>
         ELSE StoreRun(ScrapeLoop(0, work_address_1, work_address_2,
                                  [raised |-> FALSE, properties_data |-> <<>>, gets |-> <<>>]),
                       work_address_1, work_address_2)

\* the rows of df[df['status'] == 'Success'] and of df[df['status'] != 'Success']
IsSuccessRow(row) == row.status = "Success"
IsOtherRow(row) == row.status # "Success"
\* an error count that looks for the status "Error" itself
IsPlainErrorRow(row) == row.status = "Error"

SummaryCountingPlainErrors(df) ==
    [total |-> Len(df.rows),
     successful |-> Len(SelectSeq(df.rows, IsSuccessRow)),
     errors |-> Len(SelectSeq(df.rows, IsPlainErrorRow))]

\* lines 474-483: the metrics shown above the table whenever the session holds a
\* batch: "Total Properties", "Successfully Scraped", "Errors"
Summary(df) ==
    [total |-> Len(df.rows),
     successful |-> Len(SelectSeq(df.rows, IsSuccessRow)),
     errors |-> Len(SelectSeq(df.rows, IsOtherRow))]

\* lines 319-320 and 393: the session starts with no URLs, no debug flag, no results
Init ==
    /\ urls_list = <<>>
    /\ debug_mode = FALSE
    /\ scraped_data = None
    /\ message = ""
    /\ get_log = <<>>

Next ==
    \/ \E url_input \in UrlInputs : AddUrl(url_input)
    \/ ClearAll
    \/ \E i \in 0..(MaxUrls - 1) : RemoveUrl(i)
    \/ ToggleDebug
    \/ \E w1 \in WorkAddress1Inputs, w2 \in WorkAddress2Inputs : Scrape(w1, w2)

Spec == Init /\ [][Next]_vars

----------------------------------------------------------------------------
(* Properties of a scrape run.  A run that went through leaves its batch   *)
(* in scraped_data and its feedback in message; the list it ran over is    *)
(* still urls_list, since every other handler replaces the feedback.       *)

Completed == message = MsgCompleted
Batch == scraped_data[1].rows
Columns == scraped_data[1].columns

PageOf(url) == Web(url).page

\* address, asking_price, area_m2 and energy_label are all unset
FieldsUnset(data) ==
    /\ data.address = None
    /\ data.asking_price = None
    /\ data.area_m2 = None
    /\ data.energy_label = None

IsErrorRecord(data, url) ==
    StartsWith(data.status, "Error:") /\ data.link = url /\ FieldsUnset(data)

\* C1: in a finished run, the record of every URL whose GET returns a 2xx page
\* has the status "Success", whatever the page holds.
FetchedPageGivesSuccess ==
    Completed =>
        \A i \in 1..Len(urls_list) :
            FetchSucceeds(urls_list[i]) => Batch[i].status = "Success"

\* C2: a scrape run over a list of n URLs is never cut short by an exception and
\* ends with a batch of n records, the i-th of which has the i-th URL as its link.
OneRecordPerUrlInOrder ==
    /\ message # MsgException
    /\ Completed =>
        /\ Len(Batch) = Len(urls_list)
        /\ \A i \in 1..Len(urls_list) : Batch[i].link = urls_list[i]

\* a finished run in debug mode over two URLs, the first of which cannot be fetched
TwoUrlBatchWithFailure ==
    /\ Completed
    /\ debug_mode
    /\ urls_list = <<UrlGone, UrlFull>>
    /\ Len(Batch) = 2

ReturnsErrorRecord(call, url) == ~call.raised /\ IsErrorRecord(call.data, url)

\* C3: for a URL whose GET fails (404, timeout), the try block from the GET on
\* and extract_property_data as a whole return without raising, and the record
\* has a status starting with "Error:", the URL as link and no field set; so
\* has the record of such a URL in every finished run.
FailedFetchGivesErrorRecord ==
    /\ \A url \in ListingUrls :
          ~FetchSucceeds(url) =>
              /\ ReturnsErrorRecord(FetchAndExtract(url, Web(url)), url)
              /\ ReturnsErrorRecord(extract_property_data(url), url)
    /\ Completed =>
          \A i \in 1..Len(urls_list) :
              ~FetchSucceeds(urls_list[i]) => IsErrorRecord(Batch[i], urls_list[i])

\* a finished run whose list holds the URL that answers 404
BatchWithFailedFetch ==
    /\ Completed
    /\ \E i \in 1..Len(urls_list) :
          urls_list[i] = UrlGone /\ IsErrorRecord(Batch[i], UrlGone)

\* the GETs of the last run for the URL at list position i (1-based)
GetsOf(i) == {k \in 1..Len(get_log) : get_log[k].iter = i - 1 /\ get_log[k].url = urls_list[i]}

\* C4: a finished run has issued exactly one GET for each URL of the list,
\* with debug mode on or off.
OneGetPerUrl ==
    Completed => \A i \in 1..Len(urls_list) : Cardinality(GetsOf(i)) = 1

KkPriceText == "€ 395.000 k.k."

\* the text holds "€ 395.000 k.k." with no "per maand" in the 50 characters before it
HasKkPrice(text) ==
    /\ Contains(text, KkPriceText)
    /\ ~Contains(LowerCase(Slice(text, Max(0, Find(text, KkPriceText) - 50),
                                 Find(text, KkPriceText))),
                 "per maand")

\* C5: the record of a fetched page whose text holds "€ 395.000 k.k." (no "per
\* maand" in the 50 characters before it) has exactly that asking price; the
\* k.k., kk and kosten koper patterns give the amount with " k.k.", the vk
\* pattern gives it with " vk", the unqualified pattern gives the bare amount.
KkPriceKept ==
    /\ \A k \in 1..3 : FormatPrice(price_patterns[k].src, "395.000") = "€ 395.000 k.k."
    /\ FormatPrice(price_patterns[4].src, "395.000") = "€ 395.000 vk"
    /\ FormatPrice(price_patterns[5].src, "395.000") = "€ 395.000"
    /\ Completed =>
          \A i \in 1..Len(urls_list) :
              (FetchSucceeds(urls_list[i]) /\ HasKkPrice(PageOf(urls_list[i]).text))
                  => Batch[i].asking_price = Some(KkPriceText)

AreaPair == [dt |-> "Woonoppervlakte", dd |-> Some("82,5 m²")]
EnergyPair == [dt |-> "Energielabel", dd |-> Some("B")]
OtherPair == [dt |-> "Bouwjaar", dd |-> Some("1931")]

\* the <dt> lists of up to three of these pairs, in any order
DtLists == UNION {[1..n -> {AreaPair, EnergyPair, OtherPair}] : n \in 0..3}

IsAreaPair(e) == \E j \in 1..Len(area_keywords) : Contains(LowerCase(e.dt), area_keywords[j])
NotAreaPair(e) == ~IsAreaPair(e)

\* the energy label the <dt> scan leaves
ScannedLabel(dt_elements) ==
    ScanDtElements(dt_elements, 1, [area_m2 |-> None, energy_label |-> None]).energy_label

\* the <dt> lists of the pages the URL list points at
ListedDtLists == {PageOf(urls_list[i]).dts : i \in 1..Len(urls_list)}

\* C6: the energy label the dt/dd scan gives for a page is the one it gives for the
\* same page without its area pairs: an area pair found earlier changes nothing.
\* The pages are those of the listed URLs and those with the lists of DtLists.
LabelIndependentOfArea ==
    \A dt_elements \in DtLists \cup ListedDtLists :
        ScannedLabel(dt_elements) = ScannedLabel(SelectSeq(dt_elements, NotAreaPair))

\* C7: the energy label of every record is unset or one letter of A..G, and the
\* text fallback finds the keyword in any letter case, followed by a letter in
\* either case, and returns the letter in upper case.
LabelUpperCaseAnyKeywordCase ==
    /\ scraped_data # None =>
          \A i \in 1..Len(Batch) :
              Batch[i].energy_label \in {None} \cup {Some(l) : l \in ReLabel.set}
    /\ \A keyword \in {"energielabel", "Energielabel", "ENERGIELABEL"} :
          \A letter \in {"c", "C"} :
              EnergyFromText("Bouwjaar 1931\n" \o keyword \o " " \o letter \o "\n") = Some("C")

\* no <dt>/<dd> pair of the page gives an area
NoKeyValueArea(page) ==
    ScanDtElements(page.dts, 1, [area_m2 |-> None, energy_label |-> None]).area_m2 = None

\* C8: without an area from a key-value pair, area_m2 of the record of a fetched
\* page is the first "<number> m²" of the text whose value lies in 10..1000, or
\* unset without one: "71 m²" gives "71", "5000 m²" is passed over.
AreaFromFirstPlausibleToken ==
    /\ AreaFromText("wonen 71 m²") = Some("71")
    /\ AreaFromText("Perceel 5000 m²") = None
    /\ AreaFromText("Perceel 5000 m², wonen 82,5 m² en 71 m²") = Some("82.5")
    /\ Completed =>
          \A i \in 1..Len(urls_list) :
              (FetchSucceeds(urls_list[i]) /\ NoKeyValueArea(PageOf(urls_list[i])))
                  => Batch[i].area_m2 = AreaFromText(PageOf(urls_list[i]).text)

\* commute_url_k is set exactly if the address is set and work address k was given
LinkIffAddressAndWork(data, has_work_1, has_work_2) ==
    /\ (data.commute_url_1 # None) <=> (Truthy(data.address) /\ has_work_1)
    /\ (data.commute_url_2 # None) <=> (Truthy(data.address) /\ has_work_2)

\* records as the loop may hold them at line 418: with and without an address
RecordsBeforeLinks ==
    {Record(address, UrlFull, None, None, None, "Success") :
        address \in {None, Some(""), Some("Dam 1\nAmsterdam")}}
    \cup {ErrorRecord(UrlGone, HTTPErrorMessage(404, UrlGone))}

\* C9: a record carries commute_url_k exactly if its address is set and work
\* address k is not empty, in every batch and for every record lines 418-427
\* may be given; a record with an "Error: ..." status carries no commute link.
CommuteLinkIffAddressAndWork ==
    /\ \A data \in RecordsBeforeLinks :
          \A w1 \in {"", "Utrecht CS"}, w2 \in {"", "Rotterdam"} :
              LinkIffAddressAndWork(AddCommuteUrls(data, w1, w2), w1 # "", w2 # "")
    /\ scraped_data # None =>
          \A i \in 1..Len(Batch) :
              /\ LinkIffAddressAndWork(Batch[i], HasColumn(Columns, "commute_url_1"),
                                       HasColumn(Columns, "commute_url_2"))
              /\ StartsWith(Batch[i].status, "Error:") =>
                    Batch[i].commute_url_1 = None /\ Batch[i].commute_url_2 = None

\* a finished run with both work addresses given and a record with an "Error: ..."
\* status, which carries no link
ErrorRecordWithBothWorkAddresses ==
    /\ Completed
    /\ HasColumn(Columns, "commute_url_1")
    /\ HasColumn(Columns, "commute_url_2")
    /\ \E i \in 1..Len(Batch) :
          /\ StartsWith(Batch[i].status, "Error:")
          /\ Batch[i].commute_url_1 = None
          /\ Batch[i].commute_url_2 = None

\* C10: no two records of the batch of a finished run have the same link.
LinkUnique ==
    Completed =>
        \A i, j \in 1..Len(Batch) : i # j => Batch[i].link # Batch[j].link

\* C10, amended: two records of the batch of a finished run have the same link
\* exactly if the URL list holds the same URL at their two positions.
LinkSharedOnlyByRepeatedUrl ==
    Completed =>
        \A i, j \in 1..Len(Batch) :
            (Batch[i].link = Batch[j].link) <=> (urls_list[i] = urls_list[j])

\* a finished run over a list that holds one URL twice, and one over two URLs
RepeatedUrlBatch ==
    /\ Completed
    /\ Len(Batch) = 2
    /\ urls_list[1] = urls_list[2]
    /\ Batch[1].link = Batch[2].link

\* how many rows have a status for which p holds
RowsWith(rows, p(_)) == Cardinality({i \in 1..Len(rows) : p(rows[i].status)})
SuccessStatus(status) == status = "Success"
OtherStatus(status) == status # "Success"

\* the counts of a summary are those of the rows
CountsMatch(summary, rows) ==
    /\ summary.successful = RowsWith(rows, SuccessStatus)
    /\ summary.errors = RowsWith(rows, OtherStatus)
    /\ summary.successful + summary.errors = Len(rows)

\* batches of up to two records, of fetched pages and of failed fetches
SampleRecords ==
    {Record(Some("Dam 12, 1012 JS Amsterdam"), UrlFull, None, None, None, "Success"),
     Record(None, UrlBare, None, None, None, "Success"),
     ErrorRecord(UrlGone, HTTPErrorMessage(404, UrlGone))}
SampleBatches == UNION {[1..n -> SampleRecords] : n \in 0..2}

AllFail == \A i \in 1..Len(urls_list) : ~FetchSucceeds(urls_list[i])

\* C11: the summary's success count is the number of records with the status
\* "Success" and its error count the number of all others, for every batch; after
\* a finished run the two sum to the number of URLs of the list, and if every URL
\* of the list fails to fetch, every status starts with "Error:" and the success
\* count is 0.
SummaryCountsRecords ==
    /\ \A rows \in SampleBatches : CountsMatch(Summary(DataFrame(rows, base_columns)), rows)
    /\ scraped_data # None => CountsMatch(Summary(scraped_data[1]), Batch)
    /\ Completed =>
          Summary(scraped_data[1]).successful + Summary(scraped_data[1]).errors
              = Len(urls_list)
    /\ (Completed /\ AllFail) =>
          /\ \A i \in 1..Len(Batch) : StartsWith(Batch[i].status, "Error:")
          /\ Summary(scraped_data[1]).successful = 0

\* a finished run over two URLs that both fail to fetch, summarised as two errors
AllFailingBatchSummarised ==
    /\ Completed
    /\ Len(urls_list) = 2
    /\ AllFail
    /\ Summary(scraped_data[1]) = [total |-> 2, successful |-> 0, errors |-> 2]

\* the text from 50 characters before to 100 characters after offset at, lowercased
WindowAt(text, at) == LowerCase(Slice(text, Max(0, at - 50), Min(Len(text), at + 100)))

HasMonthlyPhrase(window) == Contains(window, "per maand") \/ Contains(window, "maandlasten")

\* the first match m of a pattern is turned down by lines 182-186 exactly if the
\* window around the match holds one of the two phrases
RejectedIffOwnWindow(text, m) ==
    m.ok =>
        (~NotMonthly(PriceContext(text, GroupOf(m, text)[1]))
            <=> HasMonthlyPhrase(WindowAt(text, m.start)))

\* a sale price, a monthly rent, and a sale price written without a blank after
\* the euro sign, far behind a remark on monthly costs at the top of the page
PriceTexts ==
    {"Vraagprijs € 395.000 k.k.\n",
     "Huurprijs € 1.500 per maand\n",
     "Maandlasten vanaf 1.800 euro.\nTe koop: Dam 12, 1012 JS Amsterdam, bouwjaar 1931.\n"
        \o "Vraagprijs €395.000 k.k.\n"}

ListedTexts == {PageOf(urls_list[i]).text : i \in 1..Len(urls_list)}

\* C12: for every price pattern the decision on its first match depends on the
\* window from 50 characters before to 100 after that match and on nothing else,
\* on the pages of the listed URLs and on the texts of PriceTexts; and the record
\* of a fetched page with a "€ <amount>" whose window holds neither phrase has an
\* asking price.
RentCheckUsesOwnWindow ==
    /\ \A text \in PriceTexts \cup ListedTexts :
          \A k \in 1..Len(price_patterns) :
              RejectedIffOwnWindow(text, Search(price_patterns[k], text, 0))
    /\ Completed =>
          \A i \in 1..Len(urls_list) :
              (FetchSucceeds(urls_list[i]) /\ HasKkPrice(PageOf(urls_list[i]).text))
                  => Batch[i].asking_price # None

\* a page with one heading and a title, and headings that are and are not addresses
HeadingPage(h1) ==
    [NoPage EXCEPT !.sel = [@ EXCEPT !["h1"] = Some(h1)],
                   !.title = Some("Dam 12, 1012 JS Amsterdam - Funda")]
Headings == {"Te koop", " Kerkstraat 12A, 3581 RA Utrecht ", "Nieuw in verkoop", " Dam 1 "}

\* the heading is the address if its trimmed text is longer than 10 characters and
\* holds a digit; only otherwise the prefix of the title is
AddressFromFirstStrategy ==
    \A h1 \in Headings :
        ExtractAddress(HeadingPage(h1)) =
            IF Len(Strip(h1)) > 10 /\ HasDigit(Strip(h1))
            THEN Some(Strip(h1))
            ELSE Some("Dam 12, 1012 JS Amsterdam")

EnergyIndexPair == [dt |-> "Energie-index", dd |-> Some("C 1,2")]

\* the <dt> lists of up to two pairs, none of them an area pair
EnergyLists == UNION {[1..n -> {EnergyPair, EnergyIndexPair, OtherPair}] : n \in 0..2}

\* the pair has an energy key and a letter A-G in its value
GivesLabel(e) ==
    /\ ~IsAreaPair(e)
    /\ Contains(LowerCase(e.dt), "energie")
    /\ SearchDd(EnergyValuePattern, e.dd) # None

\* the label of the first pair that gives one
FirstLabel(labelled) ==
    IF labelled = <<>> THEN None ELSE SearchDd(EnergyValuePattern, labelled[1].dd)

\* C13: every cascade is first-success-wins.  The selector strategy takes a heading
\* only if its trimmed text is longer than 10 characters and holds a digit, and the
\* title is used only without one; the label of the dt/dd scan is that of the first
\* pair that gives one, whatever later pairs hold; the record of a fetched page
\* whose selectors give an address has that address.
FirstSuccessWins ==
    /\ AddressFromFirstStrategy
    /\ \A dt_elements \in EnergyLists \cup ListedDtLists :
          ScannedLabel(SelectSeq(dt_elements, NotAreaPair))
              = FirstLabel(SelectSeq(dt_elements, GivesLabel))
    /\ Completed =>
          \A i \in 1..Len(urls_list) :
              (FetchSucceeds(urls_list[i])
                    /\ AddressFromSelectors(PageOf(urls_list[i])) # None)
                  => Batch[i].address = AddressFromSelectors(PageOf(urls_list[i]))

====
